---- MODULE Spec2Model ----
(***************************************************************************)
(* A model of three widgets of MyKivyWidgets:                              *)
(*   table.py          Table / FirstCol / SelectableDataCell: the          *)
(*                     selection bookkeeping and the scroll bindings       *)
(*   togglespinner.py  ToggleSpinner: val, cur_button, reset               *)
(*   tooltip.py        ToolTipLabel.set_position                           *)
(* The table has one specification for each set of events a property      *)
(* ranges over (SpecSelection, SpecScroll, SpecUnselectable); the spinner  *)
(* and the tooltip have SpecSpinner and SpecToolTip.  The variables of the *)
(* widgets a specification is not about are parked.                        *)
(*                                                                         *)
(* Kivy itself is a library; the parts of it the widgets call are modelled *)
(* from its documented behaviour: a property dispatches its observers only *)
(* when the assigned value differs, CompoundSelectionBehavior keeps        *)
(* selected_nodes, LayoutSelectionBehavior calls the view's                *)
(* apply_selection, the RecycleView refreshes its views from a Clock       *)
(* trigger.  Events modelled: touch down, mouse move, scroll, the Clock    *)
(* callbacks they schedule.  Window resizing and data changes after        *)
(* construction are not modelled.                                          *)
(***************************************************************************)
EXTENDS Integers, Sequences, FiniteSets, TLC

\* ---------------------------------------------------------------- bounds
NRows == 4          \* len(list_dicts)
ViewRows == 2       \* rows of the first column that fit in the viewport
MaxScrollX == 1     \* horizontal scroll positions of table_data: 0..MaxScrollX

Rows == 0 .. (NRows - 1)
\* vertical scroll positions 0..MaxScrollY; MaxScrollY is the top (Kivy's 1.0)
MaxScrollY == IF NRows > ViewRows THEN NRows - ViewRows ELSE 0
NoCell == -1

VARIABLES
    \* ---- table.py
    selectable,          \* FirstCol.selectable
    multiselect,         \* col_one_rgrid.multiselect
    touch_multiselect,   \* col_one_rgrid.touch_multiselect
    pre_selected_rows,   \* Table.pre_selected_rows (the set of its indexes)
    data_selected,       \* first_col.rv.data[i]['selected']
    selected_nodes,      \* col_one_rgrid.selected_nodes
    rv_selected_rows,    \* first_col.rv.selected_rows
    selected_rows,       \* Table.selected_rows
    views,               \* indexes of the views first_col.rv displays
    refresh_pending,     \* first_col.rv's refresh trigger is scheduled
    td_scroll_x,         \* table_data.scroll_x
    td_scroll_y,         \* table_data.scroll_y
    header_scroll_x,     \* header.scroll_x
    rv_scroll_y,         \* first_col.rv.scroll_y
    tooltip,             \* the hovered cell's tooltip: none, scheduled, shown
    fired,               \* on_selected_rows dispatches of the last handler
    changed,             \* changes of Table.selected_rows in the last handler
    synced,              \* the two lists agreed after each apply_selection
    applied,             \* apply_selection calls of the last handler
    touched,             \* a touch down has been handled
    \* ---- togglespinner.py
    values,              \* Spinner.values: the texts of the options, as added
    btn_state,           \* state of each SpinnerBtns of the dropdown
    val,                 \* ToggleSpinner.val: <<>> is None, <<t>> the string t
    cur_button,          \* ToggleSpinner.cur_button: a button, or NoButton
    is_open,             \* Spinner.is_open
    reset,               \* ToggleSpinner.reset
    dd_scroll_y,         \* _dropdown.scroll_y
    text,                \* Spinner.text, the title of the spinner button
    sp_op,               \* the last spinner handler, its button and the val before
    \* ---- tooltip.py
    label_pos,           \* window position of the ToolTipLabel
    label_width,         \* ToolTipLabel.width
    window_width,        \* Window.width
    density,             \* kivy.metrics density behind dp()
    tip_state,           \* the tooltip: none, triggered, shown, placed
    tip_size,            \* tooltip.size
    tip_pos,             \* tooltip.pos
    arrow_pos            \* tooltip.arrow_pos

tableVars == <<selectable, multiselect, touch_multiselect, pre_selected_rows,
               data_selected, selected_nodes, rv_selected_rows, selected_rows,
               views, refresh_pending, td_scroll_x, td_scroll_y,
               header_scroll_x, rv_scroll_y, tooltip,
               fired, changed, synced, applied, touched>>

spinnerVars == <<values, btn_state, val, cur_button, is_open, reset,
                 dd_scroll_y, text, sp_op>>

toolTipVars == <<label_pos, label_width, window_width, density, tip_state,
                 tip_size, tip_pos, arrow_pos>>

vars == <<tableVars, spinnerVars, toolTipVars>>

\* ------------------------------------------------------------ list helpers
Contains(seq, x) == \E k \in 1 .. Len(seq) : seq[k] = x

SeqToSet(seq) == {seq[k] : k \in 1 .. Len(seq)}

\* list.remove(x): drops the first occurrence
Remove(seq, x) ==
    LET k == CHOOSE k \in 1 .. Len(seq) :
                 seq[k] = x /\ \A j \in 1 .. (k - 1) : seq[j] # x
    IN SubSeq(seq, 1, k - 1) \o SubSeq(seq, k + 1, Len(seq))

RECURSIVE Ascending(_)
Ascending(S) ==
    IF S = {} THEN <<>>
    ELSE LET m == CHOOSE m \in S : \A x \in S : m <= x
         IN <<m>> \o Ascending(S \ {m})

\* [i for i, row in enumerate(rv.data) if row['selected'] is True]
RECURSIVE SelectedFrom(_, _)
SelectedFrom(data, i) ==
    IF i >= NRows THEN <<>>
    ELSE (IF data[i] THEN <<i>> ELSE <<>>) \o SelectedFrom(data, i + 1)

\* --------------------------------------------------- table.py: selection
\* mutant: the viewclass is SelectableDataCell whatever selectable is
ViewAlwaysSelectable == TRUE

\* viewclass of first_col.rv: "SelectableDataCell" if selectable else "Cell"
ViewIsSelectable == selectable

\* a Kivy property dispatches its observers only if the new value differs
PropertyChanged(old, new) == old # new

\* mutant: first_col.rv.selected_rows is not bound to update_selected_rows
update_selected_rows_unbound(s, value) == s

\* Table.update_selected_rows, and the dispatch of Table.on_selected_rows
update_selected_rows(s, value) ==
    [s EXCEPT !.tsel = value,
              !.fired = @ + (IF PropertyChanged(s.tsel, value) THEN 1 ELSE 0),
              !.changed = @ + (IF s.tsel # value THEN 1 ELSE 0)]

\* rv.selected_rows = value, with the binding of Table.__init__
SetRvSelectedRows(s, value) ==
    IF PropertyChanged(s.rvsel, value)
    THEN update_selected_rows([s EXCEPT !.rvsel = value], value)
    ELSE s

\* mutant: apply_selection does not write rv.data[index]['selected']
apply_selection_no_data(s, index, is_selected) ==
    LET s1 == SetRvSelectedRows(s, SelectedFrom(s.data, 0))
    IN [s1 EXCEPT !.synced = @ /\ (s1.tsel = s1.rvsel), !.applied = @ + 1]

\* SelectableDataCell.apply_selection
apply_selection(s, index, is_selected) ==
    LET d == [s.data EXCEPT ![index] = is_selected]
        s1 == SetRvSelectedRows([s EXCEPT !.data = d], SelectedFrom(d, 0))
    IN [s1 EXCEPT !.synced = @ /\ (s1.tsel = s1.rvsel), !.applied = @ + 1]

\* LayoutSelectionBehavior.apply_selection: only a RecycleDataViewBehavior
\* view is told
LayoutApplySelection(s, index, is_selected) ==
    IF ViewIsSelectable THEN apply_selection(s, index, is_selected) ELSE s

\* LayoutSelectionBehavior.deselect_node; vis = view_adapter.views
deselect_node(s, node, vis) ==
    IF Contains(s.nodes, node)
    THEN LET s1 == [s EXCEPT !.nodes = Remove(@, node)]
         IN IF node \in vis THEN LayoutApplySelection(s1, node, FALSE) ELSE s1
    ELSE s

RECURSIVE DeselectAll(_, _, _)
DeselectAll(s, todo, vis) ==
    IF todo = <<>> THEN s
    ELSE DeselectAll(deselect_node(s, Head(todo), vis), Tail(todo), vis)

\* CompoundSelectionBehavior.clear_selection
clear_selection(s, vis) == DeselectAll(s, s.nodes, vis)

\* LayoutSelectionBehavior.select_node
select_node(s, node, vis) ==
    IF Contains(s.nodes, node) THEN s
    ELSE LET s1 == IF ~multiselect /\ Len(s.nodes) > 0
                   THEN clear_selection(s, vis) ELSE s
             s2 == [s1 EXCEPT !.nodes = Append(@, node)]
         IN IF node \in vis THEN LayoutApplySelection(s2, node, TRUE) ELSE s2

\* CompoundSelectionBehavior.touch_deselect_last (Kivy's default)
touch_deselect_last == FALSE

\* CompoundSelectionBehavior.select_with_touch, no ctrl or shift key held,
\* touch.button not a scroll wheel button
select_with_touch(s, node, vis) ==
    LET multi == multiselect /\ touch_multiselect
    IN IF Contains(s.nodes, node)
       THEN IF multi THEN deselect_node(s, node, vis)
            ELSE LET cnt == Len(s.nodes)
                     s1 == clear_selection(s, vis)
                 IN IF ~touch_deselect_last /\ cnt = 1
                    THEN select_node(s1, node, vis) ELSE s1
       ELSE select_node(IF multi THEN s ELSE clear_selection(s, vis), node, vis)

\* SelectableDataCell.refresh_view_attrs
refresh_view_attrs(s, index, vis) ==
    IF s.data[index] THEN select_node(s, index, vis) ELSE s

\* RecycleDataAdapter.refresh_view_attrs: a Cell only gets its attributes set
AdapterRefreshViewAttrs(s, index, vis) ==
    IF ViewIsSelectable THEN refresh_view_attrs(s, index, vis) ELSE s

\* RecycleDataAdapter.set_visible_views: cur is the dict of the previous
\* views, each index popped as it is reached; a view not displayed before
\* is fetched with get_view, which refreshes its attributes
RECURSIVE GetViews(_, _, _)
GetViews(s, todo, cur) ==
    IF todo = <<>> THEN s
    ELSE LET i == Head(todo)
             cur1 == cur \ {i}
         IN IF i \in cur THEN GetViews(s, Tail(todo), cur1)
            ELSE GetViews(AdapterRefreshViewAttrs(s, i, cur1), Tail(todo), cur1)

\* LayoutSelectionBehavior.refresh_view_layout for each new view
RECURSIVE LayoutViews(_, _, _)
LayoutViews(s, todo, vis) ==
    IF todo = <<>> THEN s
    ELSE LayoutViews(
             LayoutApplySelection(s, Head(todo), Contains(s.nodes, Head(todo))),
             Tail(todo), vis)

\* RecycleLayoutManagerBehavior.compute_visible_views
VisibleRows(scroll_y) ==
    LET top == MaxScrollY - scroll_y
    IN {i \in Rows : top <= i /\ i < top + ViewRows}

SelState ==
    [nodes |-> selected_nodes, data |-> data_selected,
     rvsel |-> rv_selected_rows, tsel |-> selected_rows,
     fired |-> 0, changed |-> 0, synced |-> TRUE, applied |-> 0]

Commit(s) ==
    /\ selected_nodes' = s.nodes
    /\ data_selected' = s.data
    /\ rv_selected_rows' = s.rvsel
    /\ selected_rows' = s.tsel
    /\ fired' = s.fired
    /\ changed' = s.changed
    /\ synced' = s.synced
    /\ applied' = s.applied

\* ---------------------------------------------------- table.py: scrolling
ScrollState ==
    [tdx |-> td_scroll_x, tdy |-> td_scroll_y,
     hx |-> header_scroll_x, ry |-> rv_scroll_y, refresh |-> refresh_pending]

RECURSIVE SetTableDataScrollY(_, _)
RECURSIVE SetFirstColScrollY(_, _)

\* Table.scroll_with_header
scroll_with_header(sc, value) == [sc EXCEPT !.hx = value]

\* mutant: scroll_with_data leaves the first column where it is
scroll_with_data_nowhere(sc, value) == sc

\* Table.scroll_with_data
scroll_with_data(sc, value) == SetFirstColScrollY(sc, value)

\* Table.scroll_with_first_col
scroll_with_first_col(sc, value) == SetTableDataScrollY(sc, value)

\* table_data.scroll_x = value, bound to scroll_with_header
SetTableDataScrollX(sc, value) ==
    IF PropertyChanged(sc.tdx, value)
    THEN scroll_with_header([sc EXCEPT !.tdx = value], value)
    ELSE sc

\* table_data.scroll_y = value, bound to scroll_with_data
SetTableDataScrollY(sc, value) ==
    IF PropertyChanged(sc.tdy, value)
    THEN scroll_with_data([sc EXCEPT !.tdy = value], value)
    ELSE sc

\* first_col.rv.scroll_y = value: RecycleView.on_scroll_y schedules a refresh
\* of the views, then the binding to scroll_with_first_col runs
SetFirstColScrollY(sc, value) ==
    IF PropertyChanged(sc.ry, value)
    THEN scroll_with_first_col([sc EXCEPT !.ry = value, !.refresh = TRUE], value)
    ELSE sc

CommitScroll(sc) ==
    /\ td_scroll_x' = sc.tdx
    /\ td_scroll_y' = sc.tdy
    /\ header_scroll_x' = sc.hx
    /\ rv_scroll_y' = sc.ry
    /\ refresh_pending' = sc.refresh

selVars == <<selected_nodes, data_selected, rv_selected_rows, selected_rows>>
cfgVars == <<selectable, multiselect, touch_multiselect, pre_selected_rows>>
scrollVars == <<td_scroll_x, td_scroll_y, header_scroll_x, rv_scroll_y>>
tipVars == <<tooltip>>

\* ------------------------------------------------ the widgets not in play
NoButton == 0

NoSpinner ==
    /\ values = <<>>
    /\ btn_state = <<>>
    /\ val = <<>>
    /\ cur_button = NoButton
    /\ is_open = FALSE
    /\ reset = FALSE
    /\ dd_scroll_y = 1
    /\ text = ""
    /\ sp_op = [name |-> "none", btn |-> NoButton, val |-> <<>>]

NoToolTip ==
    /\ label_pos = <<0, 0>>
    /\ label_width = 0
    /\ window_width = 0
    /\ density = 1
    /\ tip_state = "none"
    /\ tip_size = <<0, 0>>
    /\ tip_pos = <<0, 0>>
    /\ arrow_pos = "bottom_mid"

NoTable ==
    /\ selectable = FALSE
    /\ multiselect = FALSE
    /\ touch_multiselect = FALSE
    /\ pre_selected_rows = {}
    /\ data_selected = <<>>
    /\ selected_nodes = <<>>
    /\ rv_selected_rows = <<>>
    /\ selected_rows = <<>>
    /\ views = {}
    /\ refresh_pending = FALSE
    /\ td_scroll_x = 0
    /\ header_scroll_x = 0
    /\ td_scroll_y = 0
    /\ rv_scroll_y = 0
    /\ tooltip = "none"
    /\ fired = 0
    /\ changed = 0
    /\ synced = TRUE
    /\ applied = 0
    /\ touched = FALSE

\* ------------------------------------------------------ table.py: actions
\* Table.__init__ -> FirstCol.__init__: the state after construction
TableConstructed ==
    /\ selectable \in BOOLEAN
    /\ multiselect \in BOOLEAN
    /\ touch_multiselect \in BOOLEAN
    /\ pre_selected_rows \in SUBSET Rows
    /\ data_selected = [i \in Rows |-> i \in pre_selected_rows]
    /\ selected_nodes = <<>>
    /\ rv_selected_rows = <<>>
    /\ selected_rows = <<>>
    /\ views = {}
    /\ refresh_pending = TRUE
    /\ td_scroll_x = 0
    /\ header_scroll_x = 0
    /\ td_scroll_y = MaxScrollY
    /\ rv_scroll_y = MaxScrollY
    /\ tooltip = "none"
    /\ fired = 0
    /\ changed = 0
    /\ synced = TRUE
    /\ applied = 0
    /\ touched = FALSE

InitTable == TableConstructed /\ NoSpinner /\ NoToolTip

InitUnselectable == InitTable /\ ~selectable

\* RecycleView.refresh_views, run by the Clock for first_col.rv
RefreshViews ==
    /\ refresh_pending
    /\ LET indices == VisibleRows(rv_scroll_y)
           s1 == GetViews(SelState, Ascending(indices), views)
           s2 == LayoutViews(s1, Ascending(indices \ views), indices)
       IN Commit(s2) /\ views' = indices
    /\ refresh_pending' = FALSE
    /\ UNCHANGED <<cfgVars, scrollVars, tipVars, touched>>
    /\ UNCHANGED <<spinnerVars, toolTipVars>>

\* SelectableDataCell.on_touch_down for a touch inside the cell of row i;
\* a Cell (selectable=False) has no touch handler
on_touch_down(i) ==
    /\ i \in views
    /\ touched' = TRUE
    /\ UNCHANGED <<cfgVars, scrollVars, tipVars, views, refresh_pending>>
    /\ UNCHANGED <<spinnerVars, toolTipVars>>
    /\ Commit(IF ViewIsSelectable
              THEN select_with_touch(SelState, i, views) ELSE SelState)

NoSelectionWork ==
    /\ fired' = 0 /\ changed' = 0 /\ synced' = TRUE /\ applied' = 0
    /\ UNCHANGED <<cfgVars, selVars, views, touched>>
    /\ UNCHANGED <<spinnerVars, toolTipVars>>

\* the user scrolls table_data horizontally
ScrollDataX(v) ==
    /\ CommitScroll(SetTableDataScrollX(ScrollState, v))
    /\ NoSelectionWork /\ UNCHANGED tipVars

\* the user scrolls table_data vertically
ScrollDataY(v) ==
    /\ CommitScroll(SetTableDataScrollY(ScrollState, v))
    /\ NoSelectionWork /\ UNCHANGED tipVars

\* the user scrolls the first column vertically
ScrollFirstColY(v) ==
    /\ CommitScroll(SetFirstColScrollY(ScrollState, v))
    /\ NoSelectionWork /\ UNCHANGED tipVars

\* Cell.on_mouse_pos of the cells in the window: the tooltip of the cell the
\* mouse left is unscheduled and closed; target is the first-column cell
\* under the mouse (or none), short its is_shortened
on_mouse_pos(target, short) ==
    /\ target \in views \cup {NoCell}
    /\ tooltip' = IF target # NoCell /\ short THEN "scheduled" ELSE "none"
    /\ NoSelectionWork /\ UNCHANGED <<scrollVars, refresh_pending>>

\* Cell.display_tooltip, run by the Clock
display_tooltip ==
    /\ tooltip = "scheduled"
    /\ tooltip' = "shown"
    /\ NoSelectionWork /\ UNCHANGED <<scrollVars, refresh_pending>>

\* the events that reach the selection: view refreshes, touches, vertical scrolls
NextSelection ==
    \/ RefreshViews
    \/ \E i \in Rows : on_touch_down(i)
    \/ \E v \in 0 .. MaxScrollY : ScrollDataY(v)
    \/ \E v \in 0 .. MaxScrollY : ScrollFirstColY(v)

SpecSelection == InitTable /\ [][NextSelection]_vars

\* the scrolls of the panes, and the view refreshes they schedule
NextScroll ==
    \/ RefreshViews
    \/ \E v \in 0 .. MaxScrollX : ScrollDataX(v)
    \/ \E v \in 0 .. MaxScrollY : ScrollDataY(v)
    \/ \E v \in 0 .. MaxScrollY : ScrollFirstColY(v)

SpecScroll == InitTable /\ [][NextScroll]_vars

\* every event, for a Table constructed with selectable=False
NextTable ==
    \/ RefreshViews
    \/ \E i \in Rows : on_touch_down(i)
    \/ \E v \in 0 .. MaxScrollX : ScrollDataX(v)
    \/ \E v \in 0 .. MaxScrollY : ScrollDataY(v)
    \/ \E v \in 0 .. MaxScrollY : ScrollFirstColY(v)
    \/ \E t \in Rows \cup {NoCell}, short \in BOOLEAN : on_mouse_pos(t, short)
    \/ display_tooltip

SpecUnselectable == InitUnselectable /\ [][NextTable]_vars

\* ----------------------------------------------------- togglespinner.py
MaxOptions == 2     \* at most this many options in Spinner.values

\* the texts an option may carry
Texts == {"", "A", "B"}

\* ToggleSpinner.__init__: open_text and close_text, without the icon markup
OpenText == "Choose From List."
CloseText == "Close."

\* the dropdown's scroll_y when scrolled to the top
ScrollTop == 1

Buttons == 1 .. Len(values)

SpinnerState ==
    [btn |-> btn_state, val |-> val, cur |-> cur_button, open |-> is_open,
     reset |-> reset, scroll |-> dd_scroll_y, text |-> text]

CommitSpinner(sp) ==
    /\ btn_state' = sp.btn
    /\ val' = sp.val
    /\ cur_button' = sp.cur
    /\ is_open' = sp.open
    /\ reset' = sp.reset
    /\ dd_scroll_y' = sp.scroll
    /\ text' = sp.text

\* is_open = value; the title of the spinner button changes on is_open
SetIsOpen(sp, value) ==
    [sp EXCEPT !.open = value,
               !.text = IF value THEN CloseText ELSE OpenText]

\* [btn for btn in dropdown_obj.children[0].children if btn.text == data][0]:
\* children lists the buttons last added first
ButtonWithText(data) ==
    CHOOSE b \in Buttons :
        values[b] = data /\ \A c \in Buttons : values[c] = data => c <= b

\* ToggleButtonBehavior._do_press of a button in the group of the dropdown:
\* the other buttons of the group are released, the pressed one is toggled
_do_press(sp, b) ==
    [sp EXCEPT !.btn = [c \in DOMAIN sp.btn |->
        IF c = b THEN (IF sp.btn[b] = "down" THEN "normal" ELSE "down")
        ELSE "normal"]]

\* mutant: val is set to data also when data is the current val
_on_dropdown_select_no_clear(sp, data) ==
    LET s1 == SetIsOpen([sp EXCEPT !.cur = ButtonWithText(data)], FALSE)
    IN [s1 EXCEPT !.val = <<data>>]

\* mutant: as Spinner._on_dropdown_select does, the text becomes the selection
_on_dropdown_select_sets_text(sp, data) ==
    LET s1 == SetIsOpen([sp EXCEPT !.cur = ButtonWithText(data)], FALSE)
    IN [s1 EXCEPT !.val = IF sp.val = <<data>> THEN <<"">> ELSE <<data>>,
                  !.text = data]

\* ToggleSpinner._on_dropdown_select
_on_dropdown_select(sp, data) ==
    LET s1 == SetIsOpen([sp EXCEPT !.cur = ButtonWithText(data)], FALSE)
    IN [s1 EXCEPT !.val = IF sp.val = <<data>> THEN <<"">> ELSE <<data>>]

\* ToggleSpinner.on_reset, for reset changing to value; the assignment of
\* its last line dispatches on_reset once more when it changes reset back
on_reset(sp, value) ==
    LET s1 == IF sp.cur # NoButton /\ sp.reset = TRUE
              THEN [sp EXCEPT !.btn[sp.cur] = "normal",
                              !.scroll = ScrollTop,
                              !.val = <<>>]
              ELSE sp
    IN [s1 EXCEPT !.reset = FALSE]

\* ToggleSpinner(values=...) once the dropdown is built
SpinnerConstructed ==
    /\ values \in UNION {[1 .. n -> Texts] : n \in 1 .. MaxOptions}
    /\ btn_state = [b \in 1 .. Len(values) |-> "normal"]
    /\ val = <<>>
    /\ cur_button = NoButton
    /\ is_open = FALSE
    /\ reset = FALSE
    /\ dd_scroll_y = ScrollTop
    /\ text = OpenText
    /\ sp_op = [name |-> "__init__", btn |-> NoButton, val |-> <<>>]

InitSpinner == SpinnerConstructed /\ NoTable /\ NoToolTip

\* Spinner._toggle_dropdown: the spinner button is released
toggle_dropdown ==
    /\ CommitSpinner(SetIsOpen(SpinnerState, ~is_open))
    /\ sp_op' = [name |-> "_toggle_dropdown", btn |-> NoButton, val |-> val]
    /\ UNCHANGED <<values, tableVars, toolTipVars>>

\* a click on option b of the open dropdown: the toggle button is pressed,
\* its on_release selects its text, the dropdown dispatches on_select
select_option(b) ==
    /\ is_open
    /\ CommitSpinner(_on_dropdown_select(_do_press(SpinnerState, b), values[b]))
    /\ sp_op' = [name |-> "_on_dropdown_select", btn |-> b, val |-> val]
    /\ UNCHANGED <<values, tableVars, toolTipVars>>

\* the user scrolls the open dropdown
scroll_dropdown(v) ==
    /\ is_open
    /\ dd_scroll_y' = v
    /\ sp_op' = [name |-> "scroll", btn |-> NoButton, val |-> val]
    /\ UNCHANGED <<values, btn_state, val, cur_button, is_open, reset, text>>
    /\ UNCHANGED <<tableVars, toolTipVars>>

\* the caller sets reset = True
set_reset ==
    /\ ~reset
    /\ CommitSpinner(on_reset([SpinnerState EXCEPT !.reset = TRUE], TRUE))
    /\ sp_op' = [name |-> "on_reset", btn |-> NoButton, val |-> val]
    /\ UNCHANGED <<values, tableVars, toolTipVars>>

NextSpinner ==
    \/ toggle_dropdown
    \/ \E b \in Buttons : select_option(b)
    \/ \E v \in 0 .. ScrollTop : scroll_dropdown(v)
    \/ set_reset

SpecSpinner == InitSpinner /\ [][NextSpinner]_vars

\* ----------------------------------------------------------- tooltip.py
MaxUnits == 4       \* positions and widths range over 0 .. MaxUnits grid steps

GridStep == 5
Grid == {GridStep * k : k \in 0 .. MaxUnits}
DensityValues == {1, 2}

\* kivy.metrics.dp
dp(v) == v * density

\* the dp() arguments of set_position
TipPad == 5
TallTip == 30

\* heights of the tooltip's label around dp(TallTip)
TipHeights == {TallTip * d + e : d \in DensityValues, e \in {-GridStep, 0, GridStep}}

\* mutant: a tooltip that ends exactly at the window's edge counts as fitting
FitsRightOrTouches(px, w, tw, W) == px + w + tw <= W

\* the branch of set_position: the tooltip fits right of the label
FitsRight(px, w, tw, W) == px + w + tw < W

\* ToolTipLabel.set_position(instance, size): <<tooltip.size, tooltip.pos,
\* tooltip.arrow_pos>>
set_position(size) ==
    LET tsize == <<size[1] + dp(TipPad), size[2]>>
        px == label_pos[1]
        right == FitsRight(px, label_width, tsize[1], window_width)
        x == IF right THEN px + label_width ELSE px - tsize[1]
        arrow == IF right
                 THEN (IF tsize[2] > dp(TallTip) THEN "left_bottom" ELSE "left_mid")
                 ELSE (IF tsize[2] > dp(TallTip) THEN "right_bottom" ELSE "right_mid")
    IN <<tsize, <<x, label_pos[2]>>, arrow>>

\* a ToolTipLabel laid out in its window
ToolTipConstructed ==
    /\ label_pos \in Grid \X {0, GridStep}
    /\ label_width \in Grid \ {0}
    /\ window_width \in {GridStep * MaxUnits, GridStep * (MaxUnits + 2)}
    /\ density \in DensityValues
    /\ tip_state = "none"
    /\ tip_size = <<0, 0>>
    /\ tip_pos = <<0, 0>>
    /\ arrow_pos = "bottom_mid"

InitToolTip == ToolTipConstructed /\ NoTable /\ NoSpinner

\* ToolTipLabel.on_mouse_pos: the tooltip is removed from the window; over a
\* label whose text is shortened the trigger of display_tooltip is set
tip_on_mouse_pos(inside, short) ==
    /\ tip_state' = IF inside /\ short THEN "triggered" ELSE "none"
    /\ UNCHANGED <<label_pos, label_width, window_width, density, tip_size,
                   tip_pos, arrow_pos>>
    /\ UNCHANGED <<tableVars, spinnerVars>>

\* ToolTipLabel.display_tooltip: a new ToolTip (a Bubble) is added to Window
tip_display_tooltip ==
    /\ tip_state = "triggered"
    /\ tip_state' = "shown"
    /\ tip_size' = <<0, 0>>
    /\ tip_pos' = <<0, 0>>
    /\ arrow_pos' = "bottom_mid"
    /\ UNCHANGED <<label_pos, label_width, window_width, density>>
    /\ UNCHANGED <<tableVars, spinnerVars>>

\* the size of the tooltip's label changes: set_position runs
label_size_changed(size) ==
    /\ tip_state \in {"shown", "placed"}
    /\ LET r == set_position(size)
       IN tip_size' = r[1] /\ tip_pos' = r[2] /\ arrow_pos' = r[3]
    /\ tip_state' = "placed"
    /\ UNCHANGED <<label_pos, label_width, window_width, density>>
    /\ UNCHANGED <<tableVars, spinnerVars>>

NextToolTip ==
    \/ \E inside \in BOOLEAN, short \in BOOLEAN : tip_on_mouse_pos(inside, short)
    \/ tip_display_tooltip
    \/ \E size \in (Grid \ {0}) \X TipHeights : label_size_changed(size)

SpecToolTip == InitToolTip /\ [][NextToolTip]_vars

\* ------------------------------------------------------------ the claims
MultiSelectTouchMode == multiselect /\ touch_multiselect

\* C1: before the first touch event Table.selected_rows holds exactly the
\* indexes of pre_selected_rows, whichever rows are in view.
C1_InitializedWithPreSelected ==
    (~touched) => SeqToSet(selected_rows) = pre_selected_rows

Toggle(S, i) == IF i \in S THEN S \ {i} ELSE S \cup {i}

\* C2: in multi-select touch mode with selectable=True, a touch down inside
\* the first-column cell of row i toggles exactly row i: i joins selected_rows
\* if it was absent and leaves it if it was present, and the selected entry of
\* every other row is unchanged.
C2_TouchTogglesExactlyRow ==
    [][\A i \in Rows :
          (selectable /\ MultiSelectTouchMode /\ on_touch_down(i)) =>
              /\ data_selected' = [data_selected EXCEPT ![i] = ~data_selected[i]]
              /\ SeqToSet(selected_rows') = Toggle(SeqToSet(selected_rows), i)
              /\ selected_rows' = SelectedFrom(data_selected', 0)]_vars

C2_Witness ==
    /\ selectable /\ MultiSelectTouchMode /\ touched /\ applied = 1
    /\ \E i \in pre_selected_rows : i \notin SeqToSet(selected_rows)
    /\ \E j \in Rows \ pre_selected_rows : j \in SeqToSet(selected_rows)
    /\ \E k \in pre_selected_rows \ views : k \in SeqToSet(selected_rows)

\* C3: after every apply_selection call Table.selected_rows equals
\* first_col.rv.selected_rows, and on_selected_rows is dispatched once for
\* each change of that value and not when an equal list is recomputed.
C3_SelectedRowsFollowRv ==
    /\ synced
    /\ selected_rows = rv_selected_rows
    /\ fired = changed
    /\ fired <= applied

C3_Witness ==
    /\ fired = 1 /\ applied > 1
    /\ selected_rows # <<>>
    /\ selected_rows = rv_selected_rows

\* C4: with selectable=False no touch, mouse-move or scroll event changes
\* Table.selected_rows or a row's 'selected' entry in first_col.rv.data.
C4_UnselectableIgnoresSelection ==
    [][selected_rows' = selected_rows /\ data_selected' = data_selected]_vars

C4_Witness ==
    /\ ~selectable /\ touched /\ pre_selected_rows # {}
    /\ tooltip = "shown"
    /\ rv_scroll_y # MaxScrollY /\ ~refresh_pending
    /\ \E i \in pre_selected_rows : i \in views
    /\ data_selected = [i \in Rows |-> i \in pre_selected_rows]

VerticalScroll ==
    \E v \in 0 .. MaxScrollY : ScrollDataY(v) \/ ScrollFirstColY(v)

HorizontalScroll == \E v \in 0 .. MaxScrollX : ScrollDataX(v)

PanesInStep == header_scroll_x = td_scroll_x /\ rv_scroll_y = td_scroll_y

\* C5: after the callbacks of any scroll header.scroll_x equals
\* table_data.scroll_x and first_col.rv.scroll_y equals table_data.scroll_y;
\* a vertical scroll never changes header.scroll_x and a horizontal scroll
\* never changes first_col.rv.scroll_y.
C5_PanesScrollTogether ==
    [][/\ PanesInStep
       /\ PanesInStep'
       /\ VerticalScroll => header_scroll_x' = header_scroll_x
       /\ HorizontalScroll => rv_scroll_y' = rv_scroll_y]_vars

C5_Witness ==
    /\ td_scroll_x # 0 /\ header_scroll_x = td_scroll_x
    /\ td_scroll_y # MaxScrollY /\ rv_scroll_y = td_scroll_y
    /\ ~refresh_pending

DistinctTexts == \A b, c \in Buttons : values[b] = values[c] => b = c

NoButtonDown == \A b \in Buttons : btn_state[b] = "normal"

ValFollowsSelect ==
    sp_op.name = "_on_dropdown_select" =>
        val = IF sp_op.val = <<values[sp_op.btn]>>
              THEN <<"">> ELSE <<values[sp_op.btn]>>

ValMatchesDownButton ==
    /\ \A b \in Buttons : btn_state[b] = "down" => val = <<values[b]>>
    /\ (val \in {<<>>, <<"">>}) <=> NoButtonDown

\* C6 as stated: _on_dropdown_select clears val to "" when data equals val and
\* sets it to data otherwise; over options with distinct texts val is the text
\* of the button that is down, and is empty exactly when no button is down.
C6_ValMatchesDownButton ==
    /\ ValFollowsSelect
    /\ DistinctTexts => ValMatchesDownButton

\* C6 amended: the same, over options with distinct texts none of which is
\* the empty string.
C6_ValMatchesDownButtonNonEmpty ==
    /\ ValFollowsSelect
    /\ (DistinctTexts /\ \A b \in Buttons : values[b] # "") => ValMatchesDownButton

C6_Witness ==
    /\ DistinctTexts /\ Len(values) > 1 /\ \A b \in Buttons : values[b] # ""
    /\ sp_op.name = "_on_dropdown_select"
    /\ btn_state[sp_op.btn] = "down"
    /\ sp_op.val \notin {<<>>, <<"">>, <<values[sp_op.btn]>>}

\* C7: when on_reset has completed, after any prior selections over any list
\* of option values, no toggle button is down, val is None and the dropdown's
\* scroll_y is 1.  (Stated for the runs the claim is surest of: at least one
\* selection was made, and no option text is empty.)
C7_ResetClearsButtons ==
    (/\ sp_op.name = "on_reset"
     /\ cur_button # NoButton
     /\ \A b \in Buttons : values[b] # "") =>
        /\ NoButtonDown
        /\ val = <<>>
        /\ dd_scroll_y = ScrollTop

\* C8: _on_dropdown_select never makes the selected value the spinner's text:
\* after a selection the text is the same whatever option was selected, and
\* nothing but cur_button, is_open and val (and what is bound to is_open) is
\* written.
C8_TextNotBoundToSelection ==
    [][sp_op'.name = "_on_dropdown_select" =>
          /\ text' = OpenText
          /\ reset' = reset
          /\ dd_scroll_y' = dd_scroll_y
          /\ values' = values]_vars

C8_Witness ==
    /\ sp_op.name = "_on_dropdown_select"
    /\ val \notin {<<>>, <<"">>}
    /\ text = OpenText /\ ~is_open
    /\ dd_scroll_y # ScrollTop

\* C9: set_position puts the tooltip beside the label without overlapping it:
\* right of it (x = px + w, arrow left_*, right edge strictly inside the
\* window) when px + w + tw < W, otherwise left of it (x = px - tw, arrow
\* right_*); y is py; the arrow is *_bottom when the tooltip is higher than
\* dp(30) and *_mid otherwise.
C9_ToolTipBesideLabel ==
    tip_state = "placed" =>
        LET px == label_pos[1]
            tw == tip_size[1]
            x == tip_pos[1]
            tall == tip_size[2] > dp(TallTip)
        IN /\ tip_pos[2] = label_pos[2]
           /\ IF px + label_width + tw < window_width
              THEN /\ x = px + label_width
                   /\ arrow_pos = (IF tall THEN "left_bottom" ELSE "left_mid")
                   /\ x + tw < window_width
              ELSE /\ x = px - tw
                   /\ arrow_pos = (IF tall THEN "right_bottom" ELSE "right_mid")
           /\ (x >= px + label_width \/ x + tw <= px)

C9_Witness ==
    /\ tip_state = "placed"
    /\ label_pos[1] + label_width + tip_size[1] = window_width
    /\ arrow_pos = "right_bottom"
    /\ tip_pos[1] < 0

====
